---- MODULE Spec2Model ----
(***************************************************************************)
(* Model of spog/api/src/endpoints/sbom/search.rs: the `search` handler of *)
(* GET /api/v1/sbom/search and its helper `search_advisories`.             *)
(*                                                                         *)
(* One request is followed from its arrival to its response.  Every await  *)
(* on a backend is a position of the handler (pc); the backends answer     *)
(* nondeterministically with Ok or Err.                                    *)
(***************************************************************************)
EXTENDS Integers, Sequences, FiniteSets, TLC

\* ---------------------------------------------------------------- bounds
MaxTotal  == 3      \* largest number of matches the primary index holds
MaxOffset == 1      \* largest requested offset
MaxLimit  == 2      \* largest requested limit
MaxAdv    == 2      \* largest total the advisory index reports

\* ---------------------------------------------------------------- options
None == <<>>
Some(x) == <<x>>
IsSome(o) == Len(o) = 1
Unwrap(o) == o[1]

Min(a, b) == IF a <= b THEN a ELSE b
Max(a, b) == IF a >= b THEN a ELSE b

\* ---------------------------------------------------------------- strings
\* Strings that are transformed are sequences of characters.
Prefix == <<"O","r","g","a","n","i","z","a","t","i","o","n",":"," ">>
Acme == <<"A","c","m","e">>
OrgNoSpace == <<"O","r","g","a","n","i","z","a","t","i","o","n",":">>

StartsWith(s, pat) ==
    /\ Len(s) >= Len(pat)
    /\ SubSeq(s, 1, Len(pat)) = pat

\* str::trim_start_matches(pat): removes pat from the front for as long as
\* the remainder still starts with it.
RECURSIVE TrimStartMatches(_, _)
TrimStartMatches(s, pat) ==
    IF Len(pat) > 0 /\ StartsWith(s, pat)
    THEN TrimStartMatches(SubSeq(s, Len(pat) + 1, Len(s)), pat)
    ELSE s

\* format!("/api/v1/sbom?id={}", id)
Href(id) == <<"/api/v1/sbom?id=", id>>

\* ---------------------------------------------------------------- inputs
\* The documents the primary index can return (document, optional metadata).
Doc(id, purl, cpe, supplier) ==
    [id |-> id, purl |-> purl, name |-> "name-" \o id, cpe |-> cpe,
     version |-> "1.0", sha256 |-> "sha-" \o id, license |-> "Apache-2.0",
     snippet |-> "snip", classifier |-> "application",
     supplier |-> supplier, description |-> "desc-" \o id,
     dependencies |-> 2, created |-> 1700000000]

Catalog ==
    { [document |-> Doc("a", Some("pkg:a"), None, Prefix \o Acme),
       metadata |-> Some("meta-a")],
      [document |-> Doc("b", None, None, Acme),
       metadata |-> None],
      [document |-> Doc("c", None, Some("cpe:c"), Prefix \o Prefix \o Acme),
       metadata |-> None],
      [document |-> Doc("d", Some("pkg:d"), Some("cpe:d"), OrgNoSpace),
       metadata |-> Some("meta-d")] }

SearchOptions(e, md, s) == [explain |-> e, metadata |-> md, summaries |-> s]

OptionChoices ==
    { SearchOptions(FALSE, FALSE, FALSE),
      SearchOptions(TRUE, TRUE, TRUE),
      SearchOptions(TRUE, FALSE, TRUE) }

Tokens == { None, Some("bearer-1") }

Queries == { "log4j" }

DefaultMetadata == "{}"

\* ---------------------------------------------------------------- state
VARIABLES
    pc,            \* position of the handler
    params,        \* search::QueryParams {q, offset, limit}
    options,       \* SearchOptions of the inbound request
    access_token,  \* Option<BearerAuth>
    data,          \* Option of the primary search's answer
    m,             \* Vec<SbomSummary> being built
    result,        \* Option<SearchResult<SbomSummary>>
    idx,           \* 1-based position of the `for sbom in sboms` loop
    response,      \* Option of what the handler returned
    calls,         \* every backend call issued, in order
    outcomes,      \* per item: outcome of its secondary call
    writes         \* per item: number of assignments to sbom.advisories

vars == <<pc, params, options, access_token, data, m, result, idx,
          response, calls, outcomes, writes>>

Init ==
    /\ pc = "idle"
    /\ params = None
    /\ options = None
    /\ access_token = None
    /\ data = None
    /\ m = <<>>
    /\ result = None
    /\ idx = 1
    /\ response = None
    /\ calls = <<>>
    /\ outcomes = <<>>
    /\ writes = <<>>


\* ---------------------------------------------------------------- helpers
Ok200(body) == [kind |-> "Ok", status |-> 200, body |-> body]
ErrResponse(e) == [kind |-> "Err", status |-> 0, body |-> e]

Outcome(kind, total) == [kind |-> kind, total |-> total]

\* All sequences over S of length at most n.
SeqsUpTo(S, n) == UNION { [1..len -> S] : len \in 0..n }

\* SbomCall with params.offset and params.limit in each other's place.
SbomCall_Swapped(p, o, t) ==
    [backend |-> "sbom", item |-> 0, q |-> p.q, offset |-> p.limit,
     limit |-> p.offset, options |-> o, token |-> t]

\* The arguments `search` passes to state.search_sbom.
SbomCall(p, o, t) ==
    [backend |-> "sbom", item |-> 0, q |-> p.q, offset |-> p.offset,
     limit |-> p.limit, options |-> o, token |-> t]

\* The primary index: of the `matches` of the query, the page that starts at
\* the call's offset and holds at most `limit` documents, with the number of
\* all matches as total.
SearchSbomBackend(call, matches) ==
    [total |-> Len(matches),
     result |-> SubSeq(matches, call.offset + 1,
                       Min(call.offset + call.limit, Len(matches)))]

\* One iteration of `for item in data.result`: the SbomSummary pushed.
MapSummary(item) ==
    LET metadata == IF IsSome(item.metadata) THEN Unwrap(item.metadata)
                    ELSE DefaultMetadata
        d == item.document
    IN  [id |-> d.id, purl |-> d.purl, name |-> d.name, cpe |-> d.cpe,
         version |-> d.version, sha256 |-> d.sha256, license |-> d.license,
         snippet |-> d.snippet, classifier |-> d.classifier,
         supplier |-> TrimStartMatches(d.supplier, Prefix),
         href |-> Href(d.id), description |-> d.description,
         dependencies |-> d.dependencies, vulnerabilities |-> <<>>,
         advisories |-> None, created |-> d.created, metadata |-> metadata]

\* Push that inserts at the front.
Push_Front(v, x) == <<x>> \o v

\* Vec::push
Push(v, x) == Append(v, x)

\* SbomSummary::advisories_query: a query over the identifying fields that
\* are present, or no query when none is.
AdvisoriesQuery(sbom) ==
    IF sbom.cpe = None /\ sbom.purl = None
    THEN None
    ELSE Some([cpe |-> sbom.cpe, purl |-> sbom.purl])

VexOffset == 0
VexLimit == 100000

\* VexCall that forwards the inbound request's options.
VexCall_ForwardOptions(i, q, o, provider) ==
    [backend |-> "vex", item |-> i, q |-> q, offset |-> VexOffset,
     limit |-> VexLimit, options |-> o, token |-> provider]

\* The arguments `search_advisories` passes to state.search_vex for item i.
VexCall(i, q, o, provider) ==
    [backend |-> "vex", item |-> i, q |-> q, offset |-> VexOffset,
     limit |-> VexLimit, options |-> SearchOptions(FALSE, FALSE, FALSE),
     token |-> provider]

Sboms == Unwrap(result).result

\* ---------------------------------------------------------------- actions
\* search, up to the await on state.search_sbom.
Receive ==
    /\ pc = "idle"
    /\ \E q \in Queries, off \in 0..MaxOffset, lim \in 0..MaxLimit,
          o \in OptionChoices, t \in Tokens :
          /\ params' = Some([q |-> q, offset |-> off, limit |-> lim])
          /\ options' = Some(o)
          /\ access_token' = t
          /\ calls' = Append(calls,
                 SbomCall([q |-> q, offset |-> off, limit |-> lim], o, t))
    /\ pc' = "search_sbom"
    /\ UNCHANGED <<data, m, result, idx, response, outcomes, writes>>

\* PrimaryErr that swallows the error and answers with an empty result.
PrimaryErr_Swallow ==
    /\ pc = "search_sbom"
    /\ response' = Some(Ok200([total |-> Some(0), result |-> <<>>]))
    /\ pc' = "done"
    /\ UNCHANGED <<params, options, access_token, data, m, result, idx,
                   calls, outcomes, writes>>

\* state.search_sbom(..).await? yields Err: the error is returned.
PrimaryErr ==
    /\ pc = "search_sbom"
    /\ response' = Some(ErrResponse("BackendError"))
    /\ pc' = "done"
    /\ UNCHANGED <<params, options, access_token, data, m, result, idx,
                   calls, outcomes, writes>>

\* state.search_sbom(..).await? yields Ok(data).
PrimaryOk ==
    /\ pc = "search_sbom"
    /\ \E matches \in SeqsUpTo(Catalog, MaxTotal) :
          data' = Some(SearchSbomBackend(calls[Len(calls)], matches))
    /\ m' = <<>>
    /\ pc' = "map"
    /\ UNCHANGED <<params, options, access_token, result, idx, response,
                   calls, outcomes, writes>>

\* One iteration of `for item in data.result`.
MapItem ==
    /\ pc = "map"
    /\ Len(m) < Len(Unwrap(data).result)
    /\ m' = Push(m, MapSummary(Unwrap(data).result[Len(m) + 1]))
    /\ UNCHANGED <<pc, params, options, access_token, data, result, idx,
                   response, calls, outcomes, writes>>

\* Assemble that takes total from the length of the mapped list.
Assemble_TotalFromLen ==
    /\ pc = "map"
    /\ Len(m) = Len(Unwrap(data).result)
    /\ result' = Some([total |-> Some(Len(m)), result |-> m])
    /\ m' = <<>>
    /\ idx' = 1
    /\ outcomes' = [j \in 1..Len(m) |-> Outcome("pending", 0)]
    /\ writes' = [j \in 1..Len(m) |-> 0]
    /\ pc' = "enrich"
    /\ UNCHANGED <<params, options, access_token, data, response, calls>>

\* The loop is over: SearchResult is built and search_advisories entered.
Assemble ==
    /\ pc = "map"
    /\ Len(m) = Len(Unwrap(data).result)
    /\ result' = Some([total |-> Some(Unwrap(data).total), result |-> m])
    /\ m' = <<>>
    /\ idx' = 1
    /\ outcomes' = [j \in 1..Len(m) |-> Outcome("pending", 0)]
    /\ writes' = [j \in 1..Len(m) |-> 0]
    /\ pc' = "enrich"
    /\ UNCHANGED <<params, options, access_token, data, response, calls>>

\* `for sbom in sboms`: advisories_query() is None, the item is passed over.
EnrichSkip ==
    /\ pc = "enrich"
    /\ idx <= Len(Sboms)
    /\ AdvisoriesQuery(Sboms[idx]) = None
    /\ outcomes' = [outcomes EXCEPT ![idx] = Outcome("noquery", 0)]
    /\ idx' = idx + 1
    /\ UNCHANGED <<pc, params, options, access_token, data, m, result,
                   response, calls, writes>>

\* `for sbom in sboms`: a query was derived, state.search_vex is awaited.
EnrichCall ==
    /\ pc = "enrich"
    /\ idx <= Len(Sboms)
    /\ AdvisoriesQuery(Sboms[idx]) # None
    /\ calls' = Append(calls,
          VexCall(idx, Unwrap(AdvisoriesQuery(Sboms[idx])), Unwrap(options),
                  access_token))
    /\ pc' = "search_vex"
    /\ UNCHANGED <<params, options, access_token, data, m, result, idx,
                   response, outcomes, writes>>

\* search_vex yields Ok(result): sbom.advisories = Some(result.total as u64).
\* The cast widens a usize to 64 bits and keeps every value.
VexOk ==
    /\ pc = "search_vex"
    /\ \E t \in 0..MaxAdv :
          /\ result' = Some([Unwrap(result) EXCEPT
                                !.result[idx].advisories = Some(t)])
          /\ outcomes' = [outcomes EXCEPT ![idx] = Outcome("ok", t)]
    /\ writes' = [writes EXCEPT ![idx] = @ + 1]
    /\ idx' = idx + 1
    /\ pc' = "enrich"
    /\ UNCHANGED <<params, options, access_token, data, m, response, calls>>

\* VexErr that propagates the error with `?`.
VexErr_Abort ==
    /\ pc = "search_vex"
    /\ outcomes' = [outcomes EXCEPT ![idx] = Outcome("err", 0)]
    /\ response' = Some(ErrResponse("BackendError"))
    /\ pc' = "done"
    /\ UNCHANGED <<params, options, access_token, data, m, result, idx,
                   calls, writes>>

\* VexErr that stores a default count (unwrap_or_default on the answer).
VexErr_WriteZero ==
    /\ pc = "search_vex"
    /\ result' = Some([Unwrap(result) EXCEPT
                          !.result[idx].advisories = Some(0)])
    /\ outcomes' = [outcomes EXCEPT ![idx] = Outcome("err", 0)]
    /\ writes' = [writes EXCEPT ![idx] = @ + 1]
    /\ idx' = idx + 1
    /\ pc' = "enrich"
    /\ UNCHANGED <<params, options, access_token, data, m, response, calls>>

\* VexErr that goes round the loop again for the same item.
VexErr_Retry ==
    /\ pc = "search_vex"
    /\ pc' = "enrich"
    /\ UNCHANGED <<params, options, access_token, data, m, result, idx,
                   response, calls, outcomes, writes>>

\* search_vex yields Err: the `if let Ok` does not match, nothing is done.
VexErr ==
    /\ pc = "search_vex"
    /\ outcomes' = [outcomes EXCEPT ![idx] = Outcome("err", 0)]
    /\ idx' = idx + 1
    /\ pc' = "enrich"
    /\ UNCHANGED <<params, options, access_token, data, m, result,
                   response, calls, writes>>

\* Respond that does not wait for search_advisories to return.
Respond_Early ==
    /\ pc \in {"enrich", "search_vex"}
    /\ response' = Some(Ok200(Unwrap(result)))
    /\ pc' = "done"
    /\ UNCHANGED <<params, options, access_token, data, m, result, idx,
                   calls, outcomes, writes>>

\* search_advisories returned: Ok(HttpResponse::Ok().json(result)).
Respond ==
    /\ pc = "enrich"
    /\ idx > Len(Sboms)
    /\ response' = Some(Ok200(Unwrap(result)))
    /\ pc' = "done"
    /\ UNCHANGED <<params, options, access_token, data, m, result, idx,
                   calls, outcomes, writes>>

Next ==
    \/ Receive
    \/ PrimaryErr
    \/ PrimaryOk
    \/ MapItem
    \/ Assemble
    \/ EnrichSkip
    \/ EnrichCall
    \/ VexOk
    \/ VexErr
    \/ Respond

Spec == Init /\ [][Next]_vars

\* ---------------------------------------------------------------- views
Responded == response # None
Responded200 == Responded /\ Unwrap(response).kind = "Ok"
RespondedErr == Responded /\ Unwrap(response).kind = "Err"
Body == Unwrap(response).body
PrimaryDone == data # None
Page == Unwrap(data).result
IsVex(c) == c.backend = "vex"
VexCallsFor(j) == { k \in 1..Len(calls) : IsVex(calls[k]) /\ calls[k].item = j }
VexCalls == { k \in 1..Len(calls) : IsVex(calls[k]) }
Derivable(j) == AdvisoriesQuery(MapSummary(Page[j])) # None
WithoutAdvisories(sbom) == [sbom EXCEPT !.advisories = None]
StripOnce(s) ==
    IF StartsWith(s, Prefix) THEN SubSeq(s, Len(Prefix) + 1, Len(s)) ELSE s

\* ---------------------------------------------------------------- claims

\* C1: once the primary search has succeeded the request never ends with an
\* error and, when it has ended, it ended with HTTP 200; in the response the
\* j-th summary has advisories = Some(t) exactly when its query was derived
\* and its own secondary call succeeded reporting t, and None otherwise.
Thm_C1 ==
    /\ PrimaryDone => ~RespondedErr
    /\ (PrimaryDone /\ pc = "done") => (Responded200 /\ Unwrap(response).status = 200)
    /\ Responded200 =>
          \A j \in 1..Len(Body.result) :
              Body.result[j].advisories =
                  IF Derivable(j) /\ outcomes[j].kind = "ok"
                  THEN Some(outcomes[j].total)
                  ELSE None

Wit_C1 ==
    /\ Responded200
    /\ \E j, k \in 1..Len(Body.result) :
          /\ outcomes[j] = Outcome("ok", 2)
          /\ outcomes[k].kind = "err"
          /\ Body.result[j].advisories = Some(2)
          /\ Body.result[k].advisories = None

\* C2: when the primary search fails the request ends with that error: no
\* 200 response, no summary built, no secondary call issued.
Thm_C2 ==
    (pc = "done" /\ ~PrimaryDone) =>
        /\ RespondedErr
        /\ Body = "BackendError"
        /\ m = <<>>
        /\ result = None
        /\ VexCalls = {}

Wit_C2 ==
    /\ pc = "done"
    /\ ~PrimaryDone
    /\ RespondedErr
    /\ Len(calls) = 1

\* C3: in every successful response total is present and is the total the
\* primary search reported.
Thm_C3 ==
    /\ result # None => Unwrap(result).total = Some(Unwrap(data).total)
    /\ Responded200 => Body.total = Some(Unwrap(data).total)

Wit_C3 ==
    /\ Responded200
    /\ Unwrap(data).total # Len(Body.result)
    /\ \E j \in 1..Len(Body.result) :
          /\ outcomes[j].kind = "ok"
          /\ outcomes[j].total # Unwrap(data).total
    /\ \E j \in 1..Len(Body.result) : outcomes[j].kind = "err"

\* C4: the result list of a successful response has the length of the
\* primary backend's document list and its i-th summary is the mapping of
\* the i-th document.
Thm_C4 ==
    Responded200 =>
        /\ Len(Body.result) = Len(Page)
        /\ \A i \in 1..Len(Page) :
              /\ Body.result[i].id = Page[i].document.id
              /\ WithoutAdvisories(Body.result[i]) = MapSummary(Page[i])

Wit_C4 ==
    /\ Responded200
    /\ Len(Body.result) >= 2
    /\ Body.result[1].id # Body.result[2].id
    /\ outcomes[1].kind = "err"
    /\ outcomes[2].kind = "ok"

\* C5: the number of summaries returned is at most the requested limit and
\* is min(total - offset, limit), the remainder counted as 0 when the offset
\* is past the total.
Thm_C5 ==
    Responded200 =>
        /\ Len(Body.result) <= Unwrap(params).limit
        /\ Len(Body.result) =
              Min(Max(Unwrap(data).total - Unwrap(params).offset, 0),
                  Unwrap(params).limit)

Wit_C5 ==
    /\ Responded200
    /\ Unwrap(params).offset = 1
    /\ Unwrap(params).limit = 2
    /\ Unwrap(data).total = 2
    /\ Len(Body.result) = 1

\* C6: the summary's supplier is the document's supplier with one leading
\* "Organization: " removed when present, and unchanged otherwise.
CE_C6 ==
    PrimaryDone =>
        \A j \in 1..Len(m) :
            m[j].supplier = StripOnce(Page[j].document.supplier)

\* C7: a secondary call is issued only after the primary search succeeded
\* and every summary is mapped; the response is produced only when no
\* secondary call is outstanding and every summary has been visited.
Thm_C7 ==
    /\ (VexCalls # {} \/ pc = "search_vex") =>
          /\ PrimaryDone
          /\ result # None
          /\ Len(Sboms) = Len(Page)
          /\ ~IsVex(calls[1])
    /\ Responded200 =>
          /\ idx > Len(Body.result)
          /\ \A j \in 1..Len(Body.result) : outcomes[j].kind # "pending"

Wit_C7 ==
    /\ Responded200
    /\ Cardinality(VexCalls) >= 2

\* C8 as stated: every summary of a response was mutated exactly once.
CE_C8 ==
    Responded200 => \A j \in 1..Len(Body.result) : writes[j] = 1

\* C8 amended: a summary is created from its document with advisories =
\* None, advisories is assigned at most once - once when its secondary call
\* succeeded, never otherwise - and after that assignment the summary does
\* not change; no other field ever differs from what the mapper gave it.
Thm_C8 ==
    /\ [](PrimaryDone =>
            /\ Len(m) <= Len(Page)
            /\ \A j \in 1..Len(m) : m[j] = MapSummary(Page[j]))
    /\ [](result # None =>
            \A j \in 1..Len(Sboms) :
                /\ writes[j] <= 1
                /\ writes[j] = 1 <=> outcomes[j].kind = "ok"
                /\ writes[j] = 0 => Sboms[j].advisories = None
                /\ WithoutAdvisories(Sboms[j]) = MapSummary(Page[j]))
    /\ [][result # None =>
            \A j \in 1..Len(Sboms) :
                writes[j] = 1 => (writes'[j] = 1 /\ Sboms'[j] = Sboms[j])]_vars

Wit_C8 ==
    /\ Responded200
    /\ \E j, k \in 1..Len(Body.result) :
          /\ writes[j] = 1
          /\ Body.result[j].advisories # None
          /\ writes[k] = 0

\* C9: one secondary call for each summary visited whose query is
\* derivable, none for any other; never more calls than summaries; a
\* summary without a query keeps None and the loop goes on to the end.
Thm_C9 ==
    /\ result = None => VexCalls = {}
    /\ result # None =>
          /\ Cardinality(VexCalls) <= Len(Sboms)
          /\ \A j \in 1..Len(Sboms) :
                Cardinality(VexCallsFor(j)) =
                    IF /\ AdvisoriesQuery(Sboms[j]) # None
                       /\ (j < idx \/ (j = idx /\ pc = "search_vex"))
                    THEN 1 ELSE 0
    /\ Responded200 =>
          \A j \in 1..Len(Body.result) :
              /\ Cardinality(VexCallsFor(j)) = IF Derivable(j) THEN 1 ELSE 0
              /\ ~Derivable(j) => Body.result[j].advisories = None
              /\ outcomes[j].kind # "pending"

Wit_C9 ==
    /\ Responded200
    /\ Len(Body.result) = 2
    /\ outcomes[1].kind = "noquery"
    /\ outcomes[2].kind = "err"
    /\ Cardinality(VexCalls) = 1

\* C10: every secondary call has offset 0, limit 100000, all three options
\* false, and the credential of the request's primary call.
Thm_C10 ==
    \A k \in 1..Len(calls) :
        IsVex(calls[k]) =>
            /\ calls[k].offset = 0
            /\ calls[k].limit = 100000
            /\ calls[k].options =
                  [explain |-> FALSE, metadata |-> FALSE, summaries |-> FALSE]
            /\ calls[k].token = access_token
            /\ calls[1].backend = "sbom"
            /\ calls[k].token = calls[1].token

Wit_C10 ==
    /\ VexCalls # {}
    /\ Unwrap(options) = SearchOptions(TRUE, TRUE, TRUE)
    /\ access_token = Some("bearer-1")
    /\ calls[1].token = Some("bearer-1")

====
